---- MODULE Spec2Model ----
(***************************************************************************)
(* Model of keras_autodoc.autogen.DocumentationGenerator.                  *)
(*                                                                         *)
(* Python strings are sequences of one-character strings, so that          *)
(* str.split, str.join, str.replace and len are computed and not assumed.  *)
(* Multi-character tokens stand for the literal pieces of text produced by *)
(* the collaborators (utils, get_signatures, docstring).                   *)
(***************************************************************************)
EXTENDS Integers, Sequences, FiniteSets, TLC

\* ------------------------------------------------------------ bounds
\* Longest type text on which alias substitution is examined.
MaxTextLen == 3

\* ------------------------------------------------------------ python builtins
RECURSIVE SplitAcc(_, _, _)
SplitAcc(s, cur, acc) ==
    IF s = <<>> THEN Append(acc, cur)
    ELSE IF Head(s) = "." THEN SplitAcc(Tail(s), <<>>, Append(acc, cur))
    ELSE SplitAcc(Tail(s), Append(cur, Head(s)), acc)

\* element.split('.')
split(s) == SplitAcc(s, <<>>, <<>>)

RECURSIVE join(_, _)
\* sep.join(parts)
join(sep, parts) ==
    IF parts = <<>> THEN <<>>
    ELSE IF Len(parts) = 1 THEN parts[1]
    ELSE parts[1] \o sep \o join(sep, Tail(parts))

\* seq[-2:]
LastTwo(seq) == IF Len(seq) <= 2 THEN seq ELSE SubSeq(seq, Len(seq) - 1, Len(seq))

StartsWith(s, k) == Len(k) <= Len(s) /\ SubSeq(s, 1, Len(k)) = k

\* k in s
Contains(s, k) == \E i \in 0..(Len(s) - Len(k)) : SubSeq(s, i + 1, i + Len(k)) = k

RECURSIVE replace(_, _, _)
\* s.replace(old, new), old non-empty: leftmost, non-overlapping occurrences
replace(s, old, new) ==
    IF s = <<>> THEN <<>>
    ELSE IF StartsWith(s, old)
         THEN new \o replace(SubSeq(s, Len(old) + 1, Len(s)), old, new)
         ELSE <<Head(s)>> \o replace(Tail(s), old, new)

\* dictionaries keep insertion order: a sequence of [k, v]
DictHas(d, k) == \E i \in 1..Len(d) : d[i].k = k
DictGet(d, k) == d[CHOOSE i \in 1..Len(d) : d[i].k = k].v
\* d[k] = v
DictSet(d, k, v) ==
    IF DictHas(d, k)
    THEN [i \in 1..Len(d) |-> IF d[i].k = k THEN [k |-> k, v |-> v] ELSE d[i]]
    ELSE Append(d, [k |-> k, v |-> v])

RECURSIVE DictUpdate(_, _)
\* d.update(other)
DictUpdate(d, other) ==
    IF other = <<>> THEN d
    ELSE DictUpdate(DictSet(d, Head(other).k, Head(other).v), Tail(other))

\* ------------------------------------------------------------ the documented project
\* Dotted paths of the project being documented.
pC  == <<"p", ".", "C">>
mC  == <<"m", ".", "C">>
pD  == <<"p", ".", "D">>
mD  == <<"m", ".", "D">>
pCf == <<"p", ".", "C", ".", "f">>
pCq == <<"p", ".", "C", ".", "q">>
pCr == <<"p", ".", "C", ".", "r">>
pz  == <<"p", ".", "z">>

\* A manifest element: a dotted-path string, or a live object.
Str(s)  == [isstr |-> TRUE, s |-> s, o |-> "none"]
Live(o) == [isstr |-> FALSE, s |-> <<>>, o |-> o]

\* Live objects: classes C and D (defined in module m, imported in package p),
\* method C.f, properties C.q and C.r, function g.
Objects == {"C", "D", "f", "q", "r", "g"}

ImportTable ==
    << [k |-> pC, v |-> "C"], [k |-> mC, v |-> "C"],
       [k |-> pD, v |-> "D"], [k |-> mD, v |-> "D"],
       [k |-> pCf, v |-> "f"], [k |-> pCq, v |-> "q"], [k |-> pCr, v |-> "r"] >>

\* utils.import_object: a non-string is returned unchanged, an unknown path fails
import_object(e) ==
    IF ~e.isstr THEN [ok |-> TRUE, o |-> e.o]
    ELSE IF DictHas(ImportTable, e.s) THEN [ok |-> TRUE, o |-> DictGet(ImportTable, e.s)]
    ELSE [ok |-> FALSE, o |-> "none"]

isclass(o)    == o \in {"C", "D"}
ismethod(o)   == o = "f"
isproperty(o) == o \in {"q", "r"}

\* utils.get_dotted_path of a class: where it is defined
get_dotted_path(o) == IF o = "C" THEN mC ELSE mD

\* object_.__name__ (of the getter for a property)
ObjName(o) == <<o>>

\* inspect.getdoc: <<>> when there is no docstring
getdoc(o) == IF o \in {"C", "f", "q"} THEN <<"Doc of ", o, ".">> ELSE <<>>

\* typing.get_type_hints, as the textual form of the annotated type
get_type_hints(o) ==
    IF o = "f" THEN mC ELSE IF o = "q" THEN mD ELSE <<>>

\* the parameters of the callable, in declaration order
Params(o) ==
    IF o = "C" THEN << <<"a", "=", "1">> >>
    ELSE IF o = "f" THEN << <<"a">>, <<"b", "=", "2">> >>
    ELSE IF o = "g" THEN << <<"x">> >>
    ELSE <<>>

\* ------------------------------------------------------------ python values of the manifest
PyList(items)  == [type |-> "list", items |-> items, tags |-> <<>>]
PyInt          == [type |-> "int", items |-> <<>>, tags |-> <<>>]
PyDict(tags)   == [type |-> "dict", items |-> <<>>, tags |-> tags]
TagVal(t, items) == [type |-> t, items |-> items]

NoError == [exc |-> "none", msg |-> <<>>]
ImportError(s) == [exc |-> "ImportError", msg |-> s]
NotIterable(v) == [exc |-> "TypeError", msg |-> <<"'", v.type, "' object is not iterable">>]

\* ------------------------------------------------------------ _fill_aliases
RECURSIVE AliasesFromList(_, _)
\* lines 174-179: for element_as_str in list_elements
AliasesFromList(items, table) ==
    IF items = <<>> THEN [ok |-> TRUE, table |-> table, error |-> NoError]
    ELSE LET Record(e, r) ==
                 IF ~r.ok THEN [ok |-> FALSE, table |-> table, error |-> ImportError(e.s)]
                 ELSE IF ~isclass(r.o) THEN AliasesFromList(Tail(items), table)
                 ELSE AliasesFromList(Tail(items), DictSet(table, get_dotted_path(r.o), e))
         IN Record(Head(items), import_object(Head(items)))

RECURSIVE FlattenTags(_, _)
\* lines 169-171: list_elements += element, for every value of the mapping
FlattenTags(tags, acc) ==
    IF tags = <<>> THEN [ok |-> TRUE, items |-> acc, error |-> NoError]
    ELSE LET v == Head(tags).val
         IN IF v.type \in {"list", "tuple"}
            THEN FlattenTags(Tail(tags), acc \o v.items)
            ELSE [ok |-> FALSE, items |-> acc, error |-> NotIterable(v)]

\* lines 167-173: the elements of one value of self.pages
ListElements(v) ==
    IF v.type = "dict" THEN FlattenTags(v.tags, <<>>)
    ELSE IF v.type \in {"list", "tuple"}
         THEN [ok |-> TRUE, items |-> v.items, error |-> NoError]
         ELSE [ok |-> FALSE, items |-> <<>>, error |-> NotIterable(v)]

RECURSIVE AliasesFromPages(_, _)
\* lines 166-179: for elements in self.pages.values()
AliasesFromPages(ps, table) ==
    IF ps = <<>> THEN [ok |-> TRUE, table |-> table, error |-> NoError]
    ELSE LET Continue(r) == IF ~r.ok THEN r ELSE AliasesFromPages(Tail(ps), r.table)
             Record(flat) ==
                 IF ~flat.ok THEN [ok |-> FALSE, table |-> table, error |-> flat.error]
                 ELSE Continue(AliasesFromList(flat.items, table))
         IN Record(ListElements(Head(ps).val))

RECURSIVE AliasesFromExtraList(_, _)
\* lines 184-186: for alias in extra_aliases
AliasesFromExtraList(aliases, table) ==
    IF aliases = <<>> THEN [ok |-> TRUE, table |-> table, error |-> NoError]
    ELSE LET Record(a, r) ==
                 IF ~r.ok THEN [ok |-> FALSE, table |-> table, error |-> ImportError(a)]
                 ELSE AliasesFromExtraList(Tail(aliases),
                                           DictSet(table, get_dotted_path(r.o), Str(a)))
         IN Record(Head(aliases), import_object(Str(Head(aliases))))

\* MergeExtra with the precedence reversed: an alias already recorded is kept
MergeExtra_ManifestWins(extra, table) ==
    IF extra.type = "dict"
    THEN [ok |-> TRUE, table |-> DictUpdate(extra.map, table), error |-> NoError]
    ELSE IF extra.type = "list"
    THEN [ok |-> TRUE, error |-> NoError,
          table |-> DictUpdate(AliasesFromExtraList(extra.list, <<>>).table, table)]
    ELSE [ok |-> TRUE, table |-> table, error |-> NoError]

\* lines 181-186: the user-supplied overrides, applied on the manifest-derived table
MergeExtra(extra, table) ==
    IF extra.type = "dict"
    THEN [ok |-> TRUE, table |-> DictUpdate(table, extra.map), error |-> NoError]
    ELSE IF extra.type = "list" THEN AliasesFromExtraList(extra.list, table)
    ELSE [ok |-> TRUE, table |-> table, error |-> NoError]

\* _fill_aliases(extra_aliases), on self.pages = ps and self.class_aliases = table
fill_aliases(ps, extra, table) ==
    LET Merge(r) == IF ~r.ok THEN r ELSE MergeExtra(extra, r.table)
    IN Merge(AliasesFromPages(ps, table))

\* ------------------------------------------------------------ collaborators
None    == [none |-> TRUE, s |-> <<>>]
Some(s) == [none |-> FALSE, s |-> s]

\* get_signatures.get_signature: Name(param, ...) on one line when it fits in
\* max_line_length, else one parameter per line
SingleLine(name, params) == name \o <<"(">> \o join(<<",", " ">>, params) \o <<")">>

RECURSIVE ParamLines(_)
ParamLines(params) ==
    IF params = <<>> THEN <<>>
    ELSE <<" ", " ", " ", " ">> \o Head(params)
         \o (IF Len(params) > 1 THEN <<",">> ELSE <<>>) \o <<"\n">>
         \o ParamLines(Tail(params))

MultiLine(name, params) == name \o <<"(", "\n">> \o ParamLines(params) \o <<")">>

get_signature(o, override, max_line_length) ==
    LET name == IF override.none THEN ObjName(o) ELSE override.s
    IN IF Len(SingleLine(name, Params(o))) <= max_line_length
       THEN SingleLine(name, Params(o))
       ELSE MultiLine(name, Params(o))

\* utils.code_snippet: a fenced python block (<fence> is the three-backquote fence)
code_snippet(snippet) == <<"<fence>python", "\n">> \o snippet \o <<"\n", "<fence>", "\n">>

\* utils.make_source_link
make_source_link(o, url) == <<"[[source]](">> \o url \o <<"/", o, ")">>

RECURSIVE SortLongestFirst(_)
\* the alias table, longest canonical path first (ties in table order)
SortLongestFirst(d) ==
    IF d = <<>> THEN <<>>
    ELSE LET i == CHOOSE i \in 1..Len(d) :
                      /\ \A j \in 1..Len(d) : Len(d[j].k) <= Len(d[i].k)
                      /\ \A j \in 1..(i - 1) : Len(d[j].k) < Len(d[i].k)
         IN <<d[i]>> \o SortLongestFirst(SubSeq(d, 1, i - 1) \o SubSeq(d, i + 1, Len(d)))

RECURSIVE ReplaceAll(_, _)
ReplaceAll(text, d) ==
    IF d = <<>> THEN text
    ELSE ReplaceAll(replace(text, Head(d).k, Head(d).v.s), Tail(d))

\* AliasSubstitute that drops the leading module of a text no alias applies to
AliasSubstitute_DropsModule(text, aliases) ==
    IF ReplaceAll(text, SortLongestFirst(aliases)) # text
    THEN ReplaceAll(text, SortLongestFirst(aliases))
    ELSE join(<<".">>, Tail(split(text)))

\* docstring: the textual form of a type, canonical class paths replaced by aliases
AliasSubstitute(text, aliases) == ReplaceAll(text, SortLongestFirst(aliases))

\* docstring.process_docstring(docstring, types, aliases)
docstring_process_docstring(docstring, types, aliases) ==
    IF types = <<>> THEN docstring
    ELSE docstring \o <<" (">> \o AliasSubstitute(types, aliases) \o <<")">>

\* ------------------------------------------------------------ rendering
\* titles_size, default "###"
titles_size == <<"#", "#", "#">>

\* process_signature: the identity unless overridden
process_signature(signature, hook) ==
    IF hook = "identity" THEN signature ELSE <<"<overridden signature>">>

\* process_docstring: delegates to docstring.process_docstring with self.class_aliases
process_docstring(docstring, types, aliases) ==
    docstring_process_docstring(docstring, types, aliases)

Rule == <<"\n", "\n", "-", "-", "-", "-", "\n", "\n">>

Heading(o) == titles_size \o <<" ">> \o ObjName(o) \o <<"\n">>

\* render_from_object with the source link appended after the heading
render_from_object_LinkAfterHeading(o, override, url, max_line_length, aliases, hook) ==
    join(<<"\n", "\n">>,
         (IF ~isproperty(o)
          THEN << Heading(o), code_snippet(process_signature(
              get_signature(o, override, max_line_length), hook)) >>
          ELSE << Heading(o) >>)
         \o (IF ~url.none THEN << make_source_link(o, url.s) >> ELSE <<>>)
         \o (IF getdoc(o) # <<>>
          THEN << process_docstring(getdoc(o), get_type_hints(o), aliases) >>
          ELSE <<>>)) \o Rule

\* render_from_object with the signature snippet appended for properties too
render_from_object_SnippetForProperty(o, override, url, max_line_length, aliases, hook) ==
    join(<<"\n", "\n">>,
         (IF ~url.none THEN << make_source_link(o, url.s) >> ELSE <<>>)
         \o (<< Heading(o), code_snippet(process_signature(
              get_signature(o, override, max_line_length), hook)) >>)
         \o (IF getdoc(o) # <<>>
          THEN << process_docstring(getdoc(o), get_type_hints(o), aliases) >>
          ELSE <<>>)) \o Rule

\* render_from_object passing a width one short of max_signature_line_length
render_from_object_WidthOffByOne(o, override, url, max_line_length, aliases, hook) ==
    join(<<"\n", "\n">>,
         (IF ~url.none THEN << make_source_link(o, url.s) >> ELSE <<>>)
         \o (IF ~isproperty(o)
          THEN << Heading(o), code_snippet(process_signature(
              get_signature(o, override, max_line_length - 1), hook)) >>
          ELSE << Heading(o) >>)
         \o (IF getdoc(o) # <<>>
          THEN << process_docstring(getdoc(o), get_type_hints(o), aliases) >>
          ELSE <<>>)) \o Rule

\* _render_from_object(object_, signature_override), with the configuration of self:
\* the subblocks in the order they are appended, joined, and the rule. The signature is
\* computed for every object and appended only when the object is not a property.
render_from_object(o, override, url, max_line_length, aliases, hook) ==
    join(<<"\n", "\n">>,
         (IF ~url.none THEN << make_source_link(o, url.s) >> ELSE <<>>)
         \o (IF ~isproperty(o)
          THEN << Heading(o), code_snippet(process_signature(
              get_signature(o, override, max_line_length), hook)) >>
          ELSE << Heading(o) >>)
         \o (IF getdoc(o) # <<>>
          THEN << process_docstring(getdoc(o), get_type_hints(o), aliases) >>
          ELSE <<>>)) \o Rule

\* render shortening the display name of methods only
render_MethodsOnly(e, url, max_line_length, aliases, hook) ==
    LET Override(o) == IF ismethod(o)
                       THEN Some(join(<<".">>, LastTwo(split(e.s))))
                       ELSE Some(e.s)
        Resolve(r) == IF e.isstr
                      THEN [ok |-> r.ok, o |-> r.o, imported |-> TRUE,
                            override |-> IF r.ok THEN Override(r.o) ELSE None]
                      ELSE [ok |-> TRUE, o |-> e.o, imported |-> FALSE, override |-> None]
        Render(x) == IF ~x.ok
                     THEN [ok |-> FALSE, error |-> ImportError(e.s), imported |-> x.imported,
                           o |-> "none", override |-> None, text |-> <<>>]
                     ELSE [ok |-> TRUE, error |-> NoError, imported |-> x.imported,
                           o |-> x.o, override |-> x.override,
                           text |-> render_from_object(x.o, x.override, url,
                                                       max_line_length, aliases, hook)]
    IN Render(Resolve(IF e.isstr THEN import_object(e) ELSE [ok |-> TRUE, o |-> e.o]))

\* _render(element): resolve a string, choose the display override, render
render(e, url, max_line_length, aliases, hook) ==
    LET Override(o) == IF ismethod(o) \/ isproperty(o)
                       THEN Some(join(<<".">>, LastTwo(split(e.s))))
                       ELSE Some(e.s)
        Resolve(r) == IF e.isstr
                      THEN [ok |-> r.ok, o |-> r.o, imported |-> TRUE,
                            override |-> IF r.ok THEN Override(r.o) ELSE None]
                      ELSE [ok |-> TRUE, o |-> e.o, imported |-> FALSE, override |-> None]
        Render(x) == IF ~x.ok
                     THEN [ok |-> FALSE, error |-> ImportError(e.s), imported |-> x.imported,
                           o |-> "none", override |-> None, text |-> <<>>]
                     ELSE [ok |-> TRUE, error |-> NoError, imported |-> x.imported,
                           o |-> x.o, override |-> x.override,
                           text |-> render_from_object(x.o, x.override, url,
                                                       max_line_length, aliases, hook)]
    IN Render(Resolve(IF e.isstr THEN import_object(e) ELSE [ok |-> TRUE, o |-> e.o]))

\* one entry of the log of rendered elements
Rendered(e, r, hook) == [element |-> e, o |-> r.o, override |-> r.override,
                         imported |-> r.imported, hook |-> hook, text |-> r.text]

RECURSIVE RenderList(_, _, _, _, _, _, _)
\* lines 131-133: markdown_text += self._render(element)
RenderList(items, text, log, url, max_line_length, aliases, hook) ==
    IF items = <<>> THEN [ok |-> TRUE, error |-> NoError, text |-> text, log |-> log]
    ELSE LET Add(r) ==
                 IF ~r.ok THEN [ok |-> FALSE, error |-> r.error, text |-> text, log |-> log]
                 ELSE RenderList(Tail(items), text \o r.text,
                                 Append(log, Rendered(Head(items), r, hook)),
                                 url, max_line_length, aliases, hook)
         IN Add(render(Head(items), url, max_line_length, aliases, hook))

InsertInFile(text, path, tag) ==
    [op |-> "insert_in_file", path |-> path, tag |-> tag, text |-> text]

\* render_list_and_insert that ignores the tag it is given
render_list_and_insert_DefaultTag(items, path, tag, url, max_line_length, aliases, hook) ==
    LET Insert(r) ==
            [ok |-> r.ok, error |-> r.error, log |-> r.log,
             calls |-> IF r.ok THEN << InsertInFile(r.text, path, "autogenerated") >> ELSE <<>>]
    IN Insert(RenderList(items, <<>>, <<>>, url, max_line_length, aliases, hook))

\* _render_list_and_insert(element_list, file_path, tag)
render_list_and_insert(items, path, tag, url, max_line_length, aliases, hook) ==
    LET Insert(r) ==
            [ok |-> r.ok, error |-> r.error, log |-> r.log,
             calls |-> IF r.ok THEN << InsertInFile(r.text, path, tag) >> ELSE <<>>]
    IN Insert(RenderList(items, <<>>, <<>>, url, max_line_length, aliases, hook))

\* repr of a manifest value, as str.format prints it
RECURSIVE ReprItems(_)
ReprItems(items) ==
    IF items = <<>> THEN <<>>
    ELSE (IF Head(items).isstr THEN <<"'">> \o Head(items).s \o <<"'">>
          ELSE <<"<function ", Head(items).o, ">">>)
         \o (IF Len(items) > 1 THEN <<",", " ">> ELSE <<>>) \o ReprItems(Tail(items))

Repr(v) ==
    IF v.type = "int" THEN <<"7">>
    ELSE IF v.type = "tuple" THEN <<"(">> \o ReprItems(v.items) \o <<",", ")">>
    ELSE <<"[">> \o ReprItems(v.items) \o <<"]">>

\* ExpectedList formatting the type alone
ExpectedList_TypeOnly(v) ==
    [exc |-> "TypeError",
     msg |-> <<"Expected list of elements to be documented, is of type ",
               "<class '", v.type, "'>">>]

\* lines 96-98 and 100-102: the TypeError of generate
ExpectedList(v) ==
    [exc |-> "TypeError",
     msg |-> <<"Expected list of elements to be documented, is of type ",
               "<class '", v.type, "'>", ":", " ">> \o Repr(v)]

RECURSIVE RenderTags(_, _, _, _, _, _, _, _)
\* lines 91-98: for tag, grouped_elements in elements.items()
RenderTags(tags, path, calls, log, url, max_line_length, aliases, hook) ==
    IF tags = <<>> THEN [ok |-> TRUE, error |-> NoError, calls |-> calls, log |-> log]
    ELSE LET Continue(r) ==
                 IF ~r.ok
                 THEN [ok |-> FALSE, error |-> r.error, calls |-> calls, log |-> log \o r.log]
                 ELSE RenderTags(Tail(tags), path, calls \o r.calls, log \o r.log,
                                 url, max_line_length, aliases, hook)
         IN IF Head(tags).val.type = "list"
            THEN Continue(render_list_and_insert(Head(tags).val.items, path, Head(tags).tag,
                                                 url, max_line_length, aliases, hook))
            ELSE [ok |-> FALSE, error |-> ExpectedList(Head(tags).val),
                  calls |-> calls, log |-> log]

\* lines 88-102: the body of the loop over self.pages.items()
GenerateBody(entry, url, max_line_length, aliases, hook) ==
    IF entry.val.type = "list"
    THEN render_list_and_insert(entry.val.items, entry.path, "autogenerated", url,
                                max_line_length, aliases, hook)
    ELSE IF entry.val.type = "dict"
    THEN RenderTags(entry.val.tags, entry.path, <<>>, <<>>, url, max_line_length,
                    aliases, hook)
    ELSE [ok |-> FALSE, error |-> ExpectedList(entry.val), calls |-> <<>>, log |-> <<>>]

\* ------------------------------------------------------------ inputs
\* file paths of the manifest
aMd == <<"a", ".", "m", "d">>
bMd == <<"b", ".", "m", "d">>
Paths == {aMd, bMd}

\* values a page of the manifest may be given
VList      == PyList(<< Str(pC), Str(pCf), Str(pCr), Live("g") >>)
VMissing   == PyList(<< Str(pC), Str(pz) >>)
VTagged    == PyDict(<< [tag |-> "t1", val |-> TagVal("list", << Str(pD) >>)],
                        [tag |-> "t2", val |-> TagVal("list", << Str(pCq) >>)] >>)
VTaggedBad == PyDict(<< [tag |-> "t1", val |-> TagVal("list", << Str(mC) >>)],
                        [tag |-> "t2", val |-> TagVal("tuple", << Str(pD) >>)] >>)
PageValues == {VList, VMissing, VTagged, VTaggedBad, PyInt}

\* a manifest: an insertion-ordered mapping from file path to value
Manifests ==
    {<<>>}
    \cup {<< [path |-> p, val |-> v] >> : p \in Paths, v \in PageValues}
    \cup {<< [path |-> p, val |-> v], [path |-> q, val |-> w] >> :
            <<p, q>> \in {<<aMd, bMd>>, <<bMd, aMd>>}, <<v, w>> \in PageValues \X PageValues}

\* extra_aliases: None, a list of names to import, or a mapping
NoExtra        == [type |-> "none", list |-> <<>>, map |-> <<>>]
ExtraList(l)   == [type |-> "list", list |-> l, map |-> <<>>]
ExtraDict(m)   == [type |-> "dict", list |-> <<>>, map |-> m]
pmC == <<"p", ".", "m", ".", "C">>
ExtraAliases ==
    { NoExtra,
      ExtraList(<< mC >>),
      ExtraDict(<< [k |-> mC, v |-> Str(pmC)] >>) }

url == <<"u">>

\* max_signature_line_length: the default, and a width the short signatures reach
DefaultMaxLineLength == 110
NarrowLineLength == 8
LineLengths == {DefaultMaxLineLength, NarrowLineLength}

Hooks == {"identity", "overridden"}

\* ------------------------------------------------------------ state
VARIABLES
    pages,                      \* self.pages
    project_url,                \* self.project_url
    template_dir,               \* self.template_dir is set
    examples_dir,               \* self.examples_dir is set
    extra_aliases,              \* the extra_aliases the constructor was given
    class_aliases,              \* self.class_aliases
    max_signature_line_length,  \* self.max_signature_line_length
    pc,                         \* where the caller is: idle, in generate's loop, returned, raised
    idx,                        \* position of generate in self.pages.items()
    calls,                      \* calls made to the collaborators by the current generate
    rendered,                   \* elements rendered by the current generate
    error                       \* the exception generate raised

vars == << pages, project_url, template_dir, examples_dir, extra_aliases, class_aliases,
           max_signature_line_length, pc, idx, calls, rendered, error >>

config == << project_url, template_dir, examples_dir, extra_aliases, class_aliases,
             max_signature_line_length >>

\* __init__: a generator exists when _fill_aliases did not raise
Init ==
    /\ pages \in Manifests
    /\ extra_aliases \in ExtraAliases
    /\ fill_aliases(pages, extra_aliases, <<>>).ok
    /\ class_aliases = fill_aliases(pages, extra_aliases, <<>>).table
    /\ project_url \in {None, Some(url)}
    /\ template_dir \in BOOLEAN
    /\ examples_dir \in BOOLEAN
    /\ max_signature_line_length \in LineLengths
    /\ pc = "idle"
    /\ idx = 0
    /\ calls = <<>>
    /\ rendered = <<>>
    /\ error = NoError

\* generator.pages = manifest
SetPages ==
    /\ pc = "idle"
    /\ pages' \in Manifests
    /\ UNCHANGED << config, pc, idx, calls, rendered, error >>

Call(op) == [op |-> op, path |-> <<>>, tag |-> "", text |-> <<>>]

\* GenerateBegin that also rebuilds the alias table from the current manifest
GenerateBegin_RebuildsAliases ==
    /\ pc = "idle"
    /\ \E dest_exists \in BOOLEAN :
         calls' = (IF dest_exists THEN << Call("rmtree") >> ELSE <<>>)
                  \o (IF template_dir THEN << Call("copytree") >> ELSE <<>>)
    /\ idx' = 1
    /\ pc' = "loop"
    /\ class_aliases' = IF fill_aliases(pages, extra_aliases, <<>>).ok
                        THEN fill_aliases(pages, extra_aliases, <<>>).table
                        ELSE class_aliases
    /\ UNCHANGED << pages, project_url, template_dir, examples_dir, extra_aliases,
                    max_signature_line_length, rendered, error >>

\* generate, lines 78-85: clean the destination, copy the templates
GenerateBegin ==
    /\ pc = "idle"
    /\ \E dest_exists \in BOOLEAN :
         calls' = (IF dest_exists THEN << Call("rmtree") >> ELSE <<>>)
                  \o (IF template_dir THEN << Call("copytree") >> ELSE <<>>)
    /\ idx' = 1
    /\ pc' = "loop"
    /\ UNCHANGED << pages, config, rendered, error >>

\* GenerateEntry that undoes the insertions made so far when the entry raises
GenerateEntry_RollsBack ==
    /\ pc = "loop"
    /\ idx <= Len(pages)
    /\ \E hook \in Hooks :
         \E r \in {GenerateBody(pages[idx], project_url, max_signature_line_length,
                                class_aliases, hook)} :
            /\ calls' = IF r.ok THEN calls \o r.calls
                        ELSE SelectSeq(calls, LAMBDA c : c.op # "insert_in_file")
            /\ rendered' = rendered \o r.log
            /\ error' = r.error
            /\ pc' = IF r.ok THEN "loop" ELSE "raised"
            /\ idx' = IF r.ok THEN idx + 1 ELSE idx
    /\ UNCHANGED << pages, config >>

\* generate, lines 87-102: one iteration of the loop over self.pages.items()
GenerateEntry ==
    /\ pc = "loop"
    /\ idx <= Len(pages)
    /\ \E hook \in Hooks :
         \E r \in {GenerateBody(pages[idx], project_url, max_signature_line_length,
                                class_aliases, hook)} :
            /\ calls' = calls \o r.calls
            /\ rendered' = rendered \o r.log
            /\ error' = r.error
            /\ pc' = IF r.ok THEN "loop" ELSE "raised"
            /\ idx' = IF r.ok THEN idx + 1 ELSE idx
    /\ UNCHANGED << pages, config >>

\* generate, lines 104-105: copy the examples and return
GenerateEnd ==
    /\ pc = "loop"
    /\ idx > Len(pages)
    /\ calls' = calls \o (IF examples_dir THEN << Call("copy_examples") >> ELSE <<>>)
    /\ pc' = "returned"
    /\ UNCHANGED << pages, config, idx, rendered, error >>

\* the caller has the result of generate, or its exception
Return ==
    /\ pc \in {"returned", "raised"}
    /\ pc' = "idle"
    /\ idx' = 0
    /\ calls' = <<>>
    /\ rendered' = <<>>
    /\ error' = NoError
    /\ UNCHANGED << pages, config >>

Next == SetPages \/ GenerateBegin \/ GenerateEntry \/ GenerateEnd \/ Return

Spec == Init /\ [][Next]_vars

\* a generator whose manifest is never reassigned after construction
NextFixedPages == GenerateBegin \/ GenerateEntry \/ GenerateEnd \/ Return

SpecFixedPages == Init /\ [][NextFixedPages]_vars

\* ------------------------------------------------------------ properties
\* What the manifest asks for, in iteration order: one unit per list-valued page
\* (at the default tag), one per tag of a mapping-valued page.
UnitsOfPage(entry) ==
    IF entry.val.type = "dict"
    THEN [j \in 1..Len(entry.val.tags) |->
            [path |-> entry.path, tag |-> entry.val.tags[j].tag, val |-> entry.val.tags[j].val]]
    ELSE << [path |-> entry.path, tag |-> "autogenerated",
             val |-> TagVal(entry.val.type, entry.val.items)] >>

RECURSIVE Units(_)
Units(ps) == IF ps = <<>> THEN <<>> ELSE UnitsOfPage(Head(ps)) \o Units(Tail(ps))

Unresolvable(u) == {i \in 1..Len(u.val.items) : ~import_object(u.val.items[i]).ok}
NotAList(u) == u.val.type # "list"
UnitFails(u) == NotAList(u) \/ Unresolvable(u) # {}
Min(S) == CHOOSE x \in S : \A y \in S : x <= y

Inserts == SelectSeq(calls, LAMBDA c : c.op = "insert_in_file")
InCall == pc \in {"loop", "returned", "raised"}

RECURSIVE Flat(_)
Flat(texts) == IF texts = <<>> THEN <<>> ELSE Head(texts) \o Flat(Tail(texts))

RECURSIVE Offset(_, _)
\* number of elements the units before the k-th list
Offset(us, k) == IF k <= 1 THEN 0 ELSE Offset(us, k - 1) + Len(us[k - 1].val.items)

EndsWith(s, k) == Len(k) <= Len(s) /\ SubSeq(s, Len(s) - Len(k) + 1, Len(s)) = k

C2_InsertsFollowManifestOrder ==
    LET us == Units(pages)
        ins == Inserts
    IN InCall =>
         /\ Len(ins) <= Len(us)
         /\ pc = "returned" => Len(ins) = Len(us)
         /\ \A k \in 1..Len(ins) :
              LET n == Len(us[k].val.items)
                  off == Offset(us, k)
              IN /\ ins[k].path = us[k].path
                 /\ ins[k].tag = us[k].tag
                 /\ us[k].val.type = "list"
                 /\ off + n <= Len(rendered)
                 /\ \A i \in 1..n : rendered[off + i].element = us[k].val.items[i]
                 /\ ins[k].text = Flat([i \in 1..n |-> rendered[off + i].text])
         /\ \A k, l \in 1..Len(ins) :
              (k # l) => ~(ins[k].path = ins[l].path /\ ins[k].tag = ins[l].tag)

\* C2 witness: generate returned after a list-valued page and a mapping-valued page
\* with two tags: three insertions, the first at the default tag.
C2_Witness ==
    /\ pc = "returned"
    /\ Len(pages) = 2
    /\ pages[1].val.type = "list" /\ pages[2].val.type = "dict"
    /\ Len(Inserts) = 3
    /\ Inserts[1].tag = "autogenerated" /\ Inserts[3].tag = "t2"
    /\ Len(pages[1].val.items) > 1

\* C9: the destination is cleaned and repopulated once, before any page; when
\* generate raises at a unit, exactly the units before it have been inserted, the
\* examples are not copied, and the exception is the one that was raised.
C9_NoRollback ==
    LET us == Units(pages)
        failing == {k \in 1..Len(us) : UnitFails(us[k])}
    IN InCall =>
         /\ \A i \in 1..Len(calls) :
              /\ calls[i].op = "rmtree" => i = 1
              /\ calls[i].op = "copytree" =>
                   /\ template_dir
                   /\ i <= 2
                   /\ \A j \in 1..(i - 1) : calls[j].op = "rmtree"
         /\ template_dir => \E i \in 1..Len(calls) : calls[i].op = "copytree"
         /\ Cardinality({i \in 1..Len(calls) : calls[i].op = "copytree"}) <= 1
         /\ pc = "raised" =>
              /\ failing # {}
              /\ LET k == Min(failing)
                 IN /\ Len(Inserts) = k - 1
                    /\ \A j \in 1..(k - 1) :
                         Inserts[j].path = us[j].path /\ Inserts[j].tag = us[j].tag
                    /\ IF NotAList(us[k])
                       THEN error = ExpectedList(us[k].val)
                       ELSE error = ImportError(us[k].val.items[Min(Unresolvable(us[k]))].s)
              /\ \A i \in 1..Len(calls) : calls[i].op # "copy_examples"
         /\ (pc = "returned" /\ examples_dir) => calls[Len(calls)].op = "copy_examples"

\* C9 witness: generate raised on the second page with the first page inserted, the
\* destination having been cleaned and repopulated and examples being configured.
C9_Witness ==
    /\ pc = "raised"
    /\ idx = 2
    /\ examples_dir /\ template_dir
    /\ Len(calls) = 3
    /\ calls[1].op = "rmtree" /\ calls[3].op = "insert_in_file"

\* the manifest-derived alias of a canonical path: the last element, in manifest
\* order, that resolves to the class defined there
ManifestItems == Flat([k \in 1..Len(Units(pages)) |-> Units(pages)[k].val.items])
ClassAt(i) ==
    LET r == import_object(ManifestItems[i])
    IN IF r.ok /\ isclass(r.o) THEN get_dotted_path(r.o) ELSE <<>>
ManifestKeys == {ClassAt(i) : i \in 1..Len(ManifestItems)} \ {<<>>}
Max(S) == CHOOSE x \in S : \A y \in S : x >= y
ManifestAlias(k) == ManifestItems[Max({i \in 1..Len(ManifestItems) : ClassAt(i) = k})]

\* what the user supplied through extra_aliases: canonical path and alias
UserAliases ==
    IF extra_aliases.type = "dict"
    THEN {extra_aliases.map[i] : i \in 1..Len(extra_aliases.map)}
    ELSE IF extra_aliases.type = "list"
    THEN {[k |-> get_dotted_path(import_object(Str(extra_aliases.list[i])).o),
           v |-> Str(extra_aliases.list[i])] : i \in 1..Len(extra_aliases.list)}
    ELSE {}

\* C3: in the alias table of a generator, every canonical path recorded from the
\* manifest maps to the user-supplied alias when extra_aliases supplies one for that
\* path (as a key of the mapping, or as the path of an entry of the list), and to its
\* manifest-derived alias otherwise.
C3_UserAliasesTakePrecedence ==
    \A k \in ManifestKeys :
        /\ DictHas(class_aliases, k)
        /\ IF \E u \in UserAliases : u.k = k
           THEN \E u \in UserAliases : u.k = k /\ DictGet(class_aliases, k) = u.v
           ELSE DictGet(class_aliases, k) = ManifestAlias(k)

\* C3 witness: the manifest records two classes, the user overrides one of them with
\* a different alias, and the other one keeps its manifest-derived alias.
C3_Witness ==
    \E k, l \in ManifestKeys :
        /\ k # l
        /\ \E u \in UserAliases : u.k = k /\ u.v # ManifestAlias(k)
        /\ ~\E u \in UserAliases : u.k = l
        /\ DictHas(class_aliases, k) /\ DictHas(class_aliases, l)

\* C4 (as stated): the alias table consulted during a generate call is the table
\* derived from the manifest and the overrides as they are in that call.
C4_Original ==
    (pc = "loop" /\ fill_aliases(pages, extra_aliases, <<>>).ok) =>
        class_aliases = fill_aliases(pages, extra_aliases, <<>>).table

\* C4 (amended): the alias table is built once, at construction, from the manifest
\* and the overrides given then; neither generate nor a later change of the pages
\* manifest rebuilds or changes it.
C4_BuiltOnceAtConstruction ==
    /\ Init => class_aliases = fill_aliases(pages, extra_aliases, <<>>).table
    /\ [][class_aliases' = class_aliases]_vars

\* C4 witness: generate is rendering with a table that differs from the one the
\* current manifest would give.
C4_Witness ==
    /\ pc = "loop"
    /\ Len(rendered) > 0
    /\ fill_aliases(pages, extra_aliases, <<>>).ok
    /\ class_aliases # fill_aliases(pages, extra_aliases, <<>>).table

Blank == <<"\n", "\n">>

\* C5: every rendered block is, in this order, a source link iff project_url is set,
\* the heading "<titles_size> <name>", a signature snippet iff the object is not a
\* property, and the processed docstring iff the object has a docstring, joined by
\* blank lines and ended by the rule "----".
C5_BlockLayout ==
    \A i \in 1..Len(rendered) :
        LET r == rendered[i]
            link == IF project_url.none THEN <<>>
                    ELSE << make_source_link(r.o, project_url.s) >>
            heading == << titles_size \o <<" ">> \o <<r.o>> \o <<"\n">> >>
            snippet == IF isproperty(r.o) THEN <<>>
                       ELSE << code_snippet(process_signature(
                                 get_signature(r.o, r.override, max_signature_line_length),
                                 r.hook)) >>
            doc == IF getdoc(r.o) = <<>> THEN <<>>
                   ELSE << process_docstring(getdoc(r.o), get_type_hints(r.o), class_aliases) >>
        IN /\ r.text = join(Blank, link \o heading \o snippet \o doc)
                         \o Blank \o <<"-", "-", "-", "-">> \o Blank
           /\ Len(heading[1]) = Len(titles_size) + 3

\* C5 witness: with a project_url, a class with a docstring and a property without
\* one have been rendered.
C5_Witness ==
    /\ ~project_url.none
    /\ \E i, j \in 1..Len(rendered) :
         /\ rendered[i].o = "C"
         /\ rendered[j].o = "r"

\* C6: the block rendered for a property has the heading named after its getter and
\* no signature snippet, whatever process_signature returns.
C6_PropertyHasNoSignature ==
    \A i \in 1..Len(rendered) :
        LET r == rendered[i]
        IN isproperty(r.o) =>
             /\ Contains(r.text, titles_size \o <<" ", r.o, "\n">>)
             /\ ~Contains(r.text, <<"<fence>python">>)
             /\ ~Contains(r.text, <<"<fence>">>)
             /\ ~Contains(r.text, get_signature(r.o, r.override, max_signature_line_length))
             /\ ~Contains(r.text, <<"<overridden signature>">>)
             /\ ~Contains(r.text, <<"(", ")">>)

\* C6 witness: a property with a docstring was rendered with a source link while
\* process_signature is overridden.
C6_Witness ==
    \E i \in 1..Len(rendered) :
        /\ rendered[i].o = "q"
        /\ rendered[i].hook = "overridden"
        /\ ~project_url.none

RECURSIVE SplitOnAcc(_, _, _, _)
SplitOnAcc(s, sep, cur, acc) ==
    IF s = <<>> THEN Append(acc, cur)
    ELSE IF Head(s) = sep THEN SplitOnAcc(Tail(s), sep, <<>>, Append(acc, cur))
    ELSE SplitOnAcc(Tail(s), sep, Append(cur, Head(s)), acc)
Lines(s) == SplitOnAcc(s, "\n", <<>>, <<>>)

\* the text between the fences of the snippet of a block
SnippetOf(text) ==
    LET a == CHOOSE i \in 1..Len(text) : text[i] = "<fence>python"
        b == CHOOSE i \in 1..Len(text) : text[i] = "<fence>"
    IN SubSeq(text, a + 2, b - 2)

Alphabet == {"p", "m", "C", "."}
TypeTexts == UNION {[1..n -> Alphabet] : n \in 0..MaxTextLen}

NothingLeftToReplace(text) ==
    \A i \in 1..Len(class_aliases) :
        class_aliases[i].v.s # class_aliases[i].k => ~Contains(text, class_aliases[i].k)

DotCount(s) == Cardinality({i \in 1..Len(s) : s[i] = "."})
IsLastTwoSegments(full, short) ==
    IF DotCount(full) <= 1 THEN short = full
    ELSE DotCount(short) = 1 /\ EndsWith(full, <<".">> \o short)

\* C10 (as stated): the display override is the last two segments exactly for a
\* string that resolves to a method, the full string for a string that resolves to a
\* property or another object, and none for a non-string, which is not imported.
C10_Original ==
    \A i \in 1..Len(rendered) :
        LET r == rendered[i]
        IN IF r.element.isstr
           THEN /\ ~r.override.none
                /\ IF ismethod(r.o)
                   THEN IsLastTwoSegments(r.element.s, r.override.s)
                   ELSE r.override.s = r.element.s
           ELSE r.override.none /\ r.o = r.element.o /\ ~r.imported

\* C10 (amended): the display override is the last two segments for a string that
\* resolves to a method or to a property, the full string for a string that resolves
\* to any other object, and none for a non-string, which is passed on unchanged and
\* not imported.
C10_OverrideForMethodsAndProperties ==
    \A i \in 1..Len(rendered) :
        LET r == rendered[i]
        IN IF r.element.isstr
           THEN /\ ~r.override.none
                /\ r.imported
                /\ IF ismethod(r.o) \/ isproperty(r.o)
                   THEN IsLastTwoSegments(r.element.s, r.override.s)
                   ELSE r.override.s = r.element.s
           ELSE r.override.none /\ r.o = r.element.o /\ ~r.imported

\* C10 witness: a class, a method, a property and a live function have been rendered.
C10_Witness ==
    \E i, j, k, l \in 1..Len(rendered) :
        /\ rendered[i].o = "C" /\ rendered[j].o = "f"
        /\ rendered[k].o = "r" /\ rendered[l].o = "g"
        /\ ~rendered[l].element.isstr
        /\ rendered[k].override.s = <<"C", ".", "r">>

====
